---- MODULE Spec2Model ----
(***************************************************************************)
(* walrus: a write-ahead log (package wal) with buffered appends, a        *)
(* background flush goroutine, segment rotation and a scanning ReadAll,    *)
(* and the key-value Store (package store) that writes through it.         *)
(* Files are modelled byte by byte; 32-bit words are pairs <<hi16, lo16>>  *)
(* so that the full uint32 range is kept.                                  *)
(***************************************************************************)
EXTENDS Integers, Sequences, FiniteSets, Bags, TLC

\* ------------------------------------------------------------------ bounds
MaxAppends == 2      \* Append calls accepted over a whole behaviour
MaxSessions == 2     \* Open calls over a whole behaviour (1 = no reopen)
MaxFaults == 1       \* storage faults (overwritten byte, torn write)
SmallMaxSize == 22   \* a maxSize that holds one 22-byte frame and no 23-byte frame
LargeMaxSize == 60   \* a maxSize that holds two frames
NWriters == 2        \* goroutines that append concurrently
PerWriter == 2       \* records each of them appends
MaxKeyLen == 2       \* longest key handed to the codec
MaxValLen == 2       \* longest value handed to the codec
NCallers == 2        \* goroutines inside Store.Set or Store.Delete at the same time

\* ------------------------------------------------------------ uint32 words
\* A uint32 is <<hi, lo>> with hi, lo in 0..65535.
U32Of(n) == <<n \div 65536, n % 65536>>
\* keyLen + valLen on uint32: wraps modulo 2^32
AddU32(x, y) == <<(x[1] + y[1] + ((x[2] + y[2]) \div 65536)) % 65536, (x[2] + y[2]) % 65536>>
\* x > n for a word x and a small natural n
U32Gt(x, n) == x[1] > n \div 65536 \/ (x[1] = n \div 65536 /\ x[2] > n % 65536)
\* int(x) for a word that fits the model's integers
IntOf(x) == x[1] * 65536 + x[2]

\* binary.BigEndian.PutUint32 / Uint32
PutUint32(v) == <<v[1] \div 256, v[1] % 256, v[2] \div 256, v[2] % 256>>
Uint32(b) == <<b[1] * 256 + b[2], b[3] * 256 + b[4]>>

\* bitwise exclusive or, one bit of weight w at a time
XorBit(a, b, w) == (((a \div w) + (b \div w)) % 2) * w
Xor8(a, b) ==
  XorBit(a, b, 1) + XorBit(a, b, 2) + XorBit(a, b, 4) + XorBit(a, b, 8)
    + XorBit(a, b, 16) + XorBit(a, b, 32) + XorBit(a, b, 64) + XorBit(a, b, 128)
Xor16(a, b) == Xor8(a % 256, b % 256) + 256 * Xor8(a \div 256, b \div 256)
Xor32(x, y) == <<Xor16(x[1], y[1]), Xor16(x[2], y[2])>>
Shr8(x) == <<x[1] \div 256, (x[2] \div 256) + 256 * (x[1] % 256)>>

\* crc32.IEEETable (reflected polynomial 0xEDB88320), entry n at index n + 1
IEEETable ==
  <<
    <<0, 0>>, <<30471, 12438>>, <<60942, 24876>>, <<39177, 20922>>,
    <<1901, 50201>>, <<28778, 62607>>, <<59747, 42293>>, <<40548, 38307>>,
    <<3803, 34866>>, <<31196, 47268>>, <<57557, 59678>>, <<38866, 55688>>,
    <<2486, 19499>>, <<32433, 31933>>, <<59320, 11527>>, <<37055, 7569>>,
    <<7607, 4196>>, <<27312, 8434>>, <<62393, 29000>>, <<33982, 16862>>,
    <<6874, 54397>>, <<28125, 58603>>, <<62676, 46417>>, <<33747, 34247>>,
    <<4972, 38998>>, <<25707, 43200>>, <<64866, 63866>>, <<35429, 51692>>,
    <<5121, 23631>>, <<25350, 27865>>, <<64015, 15715>>, <<36104, 3573>>,
    <<15214, 8392>>, <<19561, 4190>>, <<54624, 16868>>, <<41575, 29042>>,
    <<15363, 58577>>, <<19204, 54343>>, <<53773, 34301>>, <<42250, 46443>>,
    <<13749, 43258>>, <<17074, 39020>>, <<56251, 51670>>, <<44220, 63808>>,
    <<13016, 27875>>, <<17887, 23669>>, <<56534, 3535>>, <<43985, 15705>>,
    <<9945, 12460>>, <<20958, 58>>, <<51415, 20864>>, <<49104, 24854>>,
    <<8628, 62645>>, <<22195, 50211>>, <<53178, 38297>>, <<47293, 42255>>,
    <<10242, 47262>>, <<24325, 34824>>, <<50700, 55730>>, <<45323, 59684>>,
    <<12143, 31879>>, <<22632, 19473>>, <<49505, 7595>>, <<46694, 11581>>,
    <<30428, 16784>>, <<475, 28934>>, <<39122, 8380>>, <<61397, 4138>>,
    <<29105, 34185>>, <<1718, 46367>>, <<40895, 58533>>, <<59576, 54323>>,
    <<30727, 51618>>, <<3840, 63796>>, <<38409, 43150>>, <<57614, 38936>>,
    <<32618, 3515>>, <<2157, 15661>>, <<37220, 27799>>, <<58979, 23553>>,
    <<27499, 20980>>, <<7276, 24930>>, <<34149, 12504>>, <<62050, 78>>,
    <<27654, 38381>>, <<6913, 42363>>, <<33288, 62657>>, <<62735, 50263>>,
    <<26032, 55750>>, <<4791, 59728>>, <<35774, 47338>>, <<64697, 34940>>,
    <<25309, 7647>>, <<5594, 11593>>, <<36051, 31987>>, <<64468, 19557>>,
    <<19890, 24920>>, <<15029, 20942>>, <<41916, 116>>, <<54459, 12514>>,
    <<19167, 42305>>, <<15832, 38359>>, <<42193, 50285>>, <<54230, 62715>>,
    <<17257, 59754>>, <<13422, 55804>>, <<44391, 34886>>, <<55904, 47312>>,
    <<17412, 11635>>, <<13059, 7653>>, <<43530, 19551>>, <<56589, 31945>>,
    <<20485, 28988>>, <<9986, 16810>>, <<48651, 4112>>, <<51468, 8326>>,
    <<22376, 46373>>, <<8303, 34227>>, <<47462, 54281>>, <<52833, 58527>>,
    <<24286, 63758>>, <<10713, 51608>>, <<45264, 38946>>, <<51159, 43188>>,
    <<22963, 15639>>, <<11956, 3457>>, <<47037, 23611>>, <<49338, 27821>>,
    <<60856, 33568>>, <<39615, 46006>>, <<950, 57868>>, <<29873, 53914>>,
    <<60117, 18233>>, <<40402, 30639>>, <<1243, 9749>>, <<29660, 5763>>,
    <<58211, 2834>>, <<37988, 15236>>, <<3437, 27198>>, <<31338, 23208>>,
    <<58382, 53003>>, <<37641, 65437>>, <<2560, 44583>>, <<32007, 40625>>,
    <<61455, 37700>>, <<34568, 41938>>, <<7681, 62056>>, <<26886, 49918>>,
    <<63330, 22365>>, <<32869, 26571>>, <<6508, 13937>>, <<28267, 1767>>,
    <<65236, 7030>>, <<35283, 11232>>, <<4314, 31322>>, <<26589, 19148>>,
    <<63929, 57199>>, <<36542, 61433>>, <<6071, 48707>>, <<24752, 36565>>,
    <<54998, 41960>>, <<41425, 37758>>, <<14552, 49860>>, <<20447, 62034>>,
    <<53691, 26609>>, <<42684, 22375>>, <<16309, 1757>>, <<18610, 13899>>,
    <<55309, 11226>>, <<44810, 6988>>, <<13827, 19190>>, <<16644, 31328>>,
    <<57184, 61379>>, <<43111, 57173>>, <<12654, 36591>>, <<18025, 48761>>,
    <<52065, 45964>>, <<48230, 33562>>, <<9583, 53920>>, <<21096, 57910>>,
    <<52236, 30613>>, <<47883, 18179>>, <<8706, 5817>>, <<21765, 9775>>,
    <<50618, 15294>>, <<45757, 2856>>, <<11188, 23186>>, <<23731, 27140>>,
    <<49879, 65447>>, <<46544, 53041>>, <<11481, 40587>>, <<23518, 44573>>,
    <<39780, 49840>>, <<60515, 61990>>, <<30058, 41884>>, <<621, 37642>>,
    <<39945, 1705>>, <<60174, 13887>>, <<29191, 26501>>, <<1280, 22291>>,
    <<38335, 19074>>, <<58040, 31252>>, <<31665, 11182>>, <<3254, 6968>>,
    <<37586, 36507>>, <<58837, 48653>>, <<31964, 61367>>, <<3035, 57121>>,
    <<34515, 53972>>, <<61908, 57922>>, <<26845, 46072>>, <<8154, 33646>>,
    <<33214, 5837>>, <<63161, 9819>>, <<28592, 30689>>, <<6327, 18295>>,
    <<34824, 23270>>, <<65295, 27248>>, <<26118, 15306>>, <<4353, 2908>>,
    <<36709, 40703>>, <<63586, 44649>>, <<24939, 65491>>, <<5740, 53061>>,
    <<40970, 57976>>, <<55053, 53998>>, <<19972, 33620>>, <<14595, 46018>>,
    <<42855, 9825>>, <<53344, 5879>>, <<18793, 18253>>, <<15982, 30683>>,
    <<44753, 27210>>, <<55766, 23260>>, <<16607, 2918>>, <<14296, 15344>>,
    <<43452, 44627>>, <<57019, 40645>>, <<18354, 53119>>, <<12469, 65513>>,
    <<48573, 61980>>, <<51898, 49802>>, <<21427, 37680>>, <<9396, 41894>>,
    <<47824, 13829>>, <<52695, 1683>>, <<21726, 22313>>, <<9177, 26559>>,
    <<45926, 31278>>, <<50273, 19128>>, <<23912, 6914>>, <<10863, 11156>>,
    <<46091, 48695>>, <<49932, 36513>>, <<23045, 57115>>, <<11522, 61325>>
  >>

\* one byte of the table-driven update
CrcStep(crc, b) == Xor32(IEEETable[Xor8(crc[2] % 256, b) + 1], Shr8(crc))
\* the update loop over data[i..]; the singleton set makes TLC
\* compute each step's word before the next step starts
RECURSIVE CrcUpdate(_, _, _)
CrcUpdate(crc, data, i) ==
  IF i > Len(data) THEN crc
  ELSE CHOOSE r \in {CrcUpdate(c, data, i + 1) : c \in {CrcStep(crc, data[i])}} : TRUE
\* crc32.ChecksumIEEE
ChecksumIEEE(data) == Xor32(CrcUpdate(<<65535, 65535>>, data, 1), <<65535, 65535>>)

\* ------------------------------------------------------------ record codec
OpSet == 1
OpDelete == 2

\* Go slice data[a:b] (0-based, half open)
Slice(data, a, b) == SubSeq(data, a + 1, b)

encodeRecord(r) ==
  <<r.Op>> \o PutUint32(U32Of(Len(r.Key))) \o PutUint32(U32Of(Len(r.Value))) \o r.Key \o r.Value

\* Result of decodeRecord: kind "ok" with rec, kind "err", or kind "panic"
\* (a slice bound outside the payload aborts the process).
NoRecord == [Op |-> 0, Key |-> <<>>, Value |-> <<>>]
decodeRecord(data) ==
  IF Len(data) < 9 THEN [kind |-> "err", rec |-> NoRecord]
  ELSE LET op == data[1]
           keyLen == Uint32(Slice(data, 1, 5))
           valLen == Uint32(Slice(data, 5, 9))
           expected == AddU32(keyLen, valLen)
           rest == Len(data) - 9
       IN IF U32Of(rest) # expected THEN [kind |-> "err", rec |-> NoRecord]
          ELSE IF U32Gt(keyLen, rest) THEN [kind |-> "panic", rec |-> NoRecord]
          ELSE LET k == IntOf(keyLen)
                   offset == k
               IN IF U32Gt(valLen, Len(data) - offset) THEN [kind |-> "panic", rec |-> NoRecord]
                  ELSE [kind |-> "ok",
                        rec |-> [Op |-> op,
                                 Key |-> Slice(data, 9, 9 + k),
                                 Value |-> Slice(data, offset, offset + IntOf(valLen))]]

\* -------------------------------------------------------------- frame layer
\* The 4-byte frame tag written by Append and tested by readAllFromFile.
recordMagic == <<22337, 19538>>

\* The frame Append puts into the buffer for an encoded record.
Frame(data) ==
  PutUint32(recordMagic) \o PutUint32(U32Of(Len(data))) \o PutUint32(ChecksumIEEE(data)) \o data

\* File handles: os.Open gives a read-only descriptor, openSegment a
\* read-write one; Truncate on a read-only descriptor fails and leaves the
\* file as it is (readAllFromFile ignores Truncate's error).
ReadOnly == FALSE
ReadWrite == TRUE
Truncate(contents, writable, size) ==
  IF writable /\ size >= 0 THEN SubSeq(contents, 1, size) ELSE contents

\* The scan loop of readAllFromFile from a frame start. cut is the argument
\* of the Truncate call the loop makes before it breaks (-1: no call).
RECURSIVE scanFrom(_, _, _)
scanFrom(f, offset, records) ==
  LET stop(cut, p) == [records |-> records, cut |-> cut, panic |-> p]
  IN IF offset + 4 > Len(f) THEN stop(-1, FALSE)
     ELSE IF Uint32(Slice(f, offset, offset + 4)) # recordMagic THEN stop(offset, FALSE)
     ELSE IF offset + 8 > Len(f) THEN stop(offset, FALSE)
     ELSE IF offset + 12 > Len(f) THEN stop(offset, FALSE)
     ELSE LET length == Uint32(Slice(f, offset + 4, offset + 8))
              expectedChecksum == Uint32(Slice(f, offset + 8, offset + 12))
          IN IF U32Gt(length, Len(f) - (offset + 12)) THEN stop(offset, FALSE)
             ELSE LET data == Slice(f, offset + 12, offset + 12 + IntOf(length))
                      d == decodeRecord(data)
                  IN IF ChecksumIEEE(data) # expectedChecksum THEN stop(offset, FALSE)
                     ELSE IF d.kind = "err" THEN stop(offset, FALSE)
                     ELSE IF d.kind = "panic" THEN stop(-1, TRUE)
                     ELSE scanFrom(f, offset + 12 + IntOf(length), Append(records, d.rec))

\* readAllFromFile on a handle with the given contents and mode: the records,
\* the contents it leaves behind, and whether decodeRecord panicked.
readAllFromFile(contents, writable) ==
  LET s == scanFrom(contents, 0, <<>>)
  IN [records |-> s.records, contents |-> Truncate(contents, writable, s.cut), panic |-> s.panic]

\* ---------------------------------------------------------- segment manager
\* fmt.Sprintf("wal-%04d.log", id): the digits of the name (ids below 10000)
SegName(id) == <<(id \div 1000) % 10, (id \div 100) % 10, (id \div 10) % 10, id % 10>>

NameLess(a, b) ==
  \E i \in 1..4 : a[i] < b[i] /\ \A j \in 1..(i - 1) : a[j] = b[j]

\* segmentFiles: the segments of the directory, sorted by name
RECURSIVE SortByName(_)
SortByName(S) ==
  IF S = {} THEN <<>>
  ELSE LET m == CHOOSE x \in S : \A y \in S \ {x} : NameLess(SegName(x), SegName(y))
       IN <<m>> \o SortByName(S \ {m})
segmentFiles(d) == SortByName(DOMAIN d)

\* os.OpenFile(path, O_CREATE|O_APPEND|O_RDWR): creates the file when absent
openSegment(d, id) == IF id \in DOMAIN d THEN d ELSE d @@ (id :> <<>>)

\* ------------------------------------------------------------------ inputs
KeyA == <<97>>
KeyB == <<98>>
Val1 == <<49>>
Records ==
  { [Op |-> OpSet, Key |-> KeyA, Value |-> Val1],
    [Op |-> OpDelete, Key |-> KeyB, Value |-> <<>>] }
MaxSizes == {SmallMaxSize, LargeMaxSize}
CorruptValue == 255
Val2 == <<50>>
\* Records handed to the codec: both ops, keys and values over two bytes
CodecBytes == {0, 97}
SeqsUpTo(n) == UNION {[1..m -> CodecBytes] : m \in 0..n}
CodecRecords == [Op : {OpSet, OpDelete}, Key : SeqsUpTo(MaxKeyLen), Value : SeqsUpTo(MaxValLen)]
\* Records with an op byte that is neither OpSet nor OpDelete; Record.Op is
\* a byte and neither Append nor encodeRecord looks at its value
UnknownOp == 3
UnknownOpRecords == [Op : {UnknownOp}, Key : SeqsUpTo(MaxKeyLen), Value : SeqsUpTo(MaxValLen)]
\* Payloads handed to decodeRecord: a 9-byte header whose two length words
\* are small or next to the top of the uint32 range, then a short body
LenWords == {U32Of(n) : n \in 0..MaxKeyLen} \cup {<<65535, 65535 - n>> : n \in 0..1}
Payloads ==
  { <<OpSet>> \o PutUint32(k) \o PutUint32(v) \o b :
      k \in LenWords, v \in LenWords, b \in SeqsUpTo(MaxKeyLen) }
\* Concurrent writers: writer w appends its records i = 1, 2, ... in turn
Writers == 1..NWriters
WriterRecord(w, i) == [Op |-> OpSet, Key |-> <<96 + w>>, Value |-> <<48 + i>>]
\* The Set and Delete calls a Store caller makes
StoreKeys == {KeyA}
StoreValues == {Val1, Val2}
\* The keys of a Store that holds more than one key
TwoKeys == {KeyA, KeyB}

\* goroutines that call Store.Set and Store.Delete at the same time, and
\* the records of their calls: a Set and a Delete of one key
Callers == 1..NCallers
LockRecords ==
  { [Op |-> OpSet, Key |-> KeyA, Value |-> Val1],
    [Op |-> OpDelete, Key |-> KeyA, Value |-> <<>>] }

\* ------------------------------------------------------------------- state
VARIABLES
  disk,        \* the log directory: segment id -> bytes of wal-<id>.log
  maxSize,     \* w.maxSize
  proc,        \* "up": a process holds a WAL handle; "down": none (crashed)
  buffer,      \* w.buffer
  file,        \* w.file: id of the segment the handle is open on, 0 = nil
  segmentID,   \* w.segmentID
  closed,      \* w.closed
  stopCh,      \* TRUE once w.stopCh is closed
  stoppedCh,   \* TRUE once w.stoppedCh is closed
  pc,          \* the caller: "idle", "readall", "close_stop", "close_wait"
  pcLoop,      \* flushLoop: "select", "exiting", "done"
  raFiles,     \* ReadAll: segments still to scan
  raRecords,   \* ReadAll: records collected so far
  result,      \* what the caller's last call returned (op "call": in progress)
  accepted,    \* history: records whose Append returned nil on this handle
  bufRecs,     \* history: the records whose frames are in the buffer
  written,     \* history: records of the frames written whole, in write order
  prior,       \* history: written, as it was when this handle was opened
  durable,     \* history: written, as it was when the last Flush returned
  drained,     \* history: records accepted on handles whose Close returned
  raWritten,   \* history: written, as it was when ReadAll started
  raBufRecs,   \* history: bufRecs, as it was when ReadAll started
  raTruncated, \* history: a scan of this ReadAll ended in a Truncate call
  faults,      \* storage faults so far: overwritten bytes and torn writes
  session,     \* number of Open calls so far
  nAppends,    \* number of accepted Append calls so far
  data,        \* Store: s.data, the map from key to value
  call,        \* Store: the Store method the caller is inside, with its record
  input,       \* codec: the record handed to encodeRecord
  payload,     \* codec: the bytes handed to decodeRecord
  wmu,         \* w.mu: the Store caller that holds it, 0 = unlocked
  smu,         \* s.mu: the Store caller that holds it, 0 = unlocked
  lockers,     \* Store callers: the method each is inside, with its record
  logged,      \* history: records whose Append returned nil, on any handle
  healed,      \* history: a ReadAll of this handle, called before any Append,
               \* has ended its scan of the active segment in a Truncate call
  recovered    \* history: s.data as the last Recover left it, the directory it
               \* read and the number (1, 2 = more than once) of Recover calls
               \* in a row on that directory; seen is the directory as it was
               \* when the Recover under way began. Dropped once another call
               \* has returned or when the directory changed during the call

walVars == <<disk, buffer, file, segmentID, written, bufRecs>>
loopVars == <<stopCh, stoppedCh, pcLoop>>
readVars == <<raFiles, raRecords, raWritten, raBufRecs, raTruncated, recovered>>
ghostVars == <<logged, healed>>
envVars == <<maxSize, faults, session>>
histVars == <<prior, durable, drained>>
storeVars == <<data, call>>
codecVars == <<input, payload>>
lockVars == <<wmu, smu, lockers>>
appVars == <<data, call, input, payload, wmu, smu, lockers>>
vars == <<disk, maxSize, proc, buffer, file, segmentID, closed, stopCh, stoppedCh,
          pc, pcLoop, raFiles, raRecords, result, accepted, bufRecs, written, prior,
          durable, drained, raWritten, raBufRecs, raTruncated, faults, session, nAppends,
          data, call, input, payload, wmu, smu, lockers, logged, healed, recovered>>

\* make(map[string]string): the empty map; a map is a function on its keys
NoData == <<>>
\* The caller is inside no Store method
NoCall == [kind |-> "none", rec |-> NoRecord]
\* A Store caller outside Set and Delete; inside, at is "append" (in Append,
\* under w.mu), "lock" (Append has returned nil) or "apply" (under s.mu)
NoLocker == [at |-> "idle", rec |-> NoRecord]

Ret(op, err, records) == [op |-> op, err |-> err, records |-> records]

\* The locals and the history of a ReadAll are dropped once another call
\* has returned.
NoRecovered == [data |-> <<>>, disk |-> <<>>, n |-> 0, seen |-> <<>>]
ForgetRead ==
  /\ recovered' = NoRecovered
  /\ raFiles' = <<>>
  /\ raRecords' = <<>>
  /\ raWritten' = <<>>
  /\ raBufRecs' = <<>>
  /\ raTruncated' = FALSE

\* Open on a directory d: a fresh handle on segment 1, flushLoop started.
Open(d) ==
  /\ disk' = openSegment(d, 1)
  /\ buffer' = <<>>
  /\ segmentID' = 1
  /\ file' = 1
  /\ closed' = FALSE
  /\ stopCh' = FALSE
  /\ stoppedCh' = FALSE
  /\ pcLoop' = "select"
  /\ proc' = "up"
  /\ pc' = "idle"

EmptyDir == <<>>

\* The state after Open on an empty directory.
Opened ==
  /\ maxSize \in MaxSizes
  /\ disk = openSegment(EmptyDir, 1)
  /\ buffer = <<>>
  /\ segmentID = 1
  /\ file = 1
  /\ closed = FALSE
  /\ stopCh = FALSE
  /\ stoppedCh = FALSE
  /\ pcLoop = "select"
  /\ proc = "up"
  /\ pc = "idle"
  /\ raFiles = <<>>
  /\ raRecords = <<>>
  /\ result = Ret("Open", FALSE, <<>>)
  /\ accepted = <<>>
  /\ bufRecs = <<>>
  /\ written = <<>>
  /\ prior = <<>>
  /\ durable = <<>>
  /\ drained = <<>>
  /\ raWritten = <<>>
  /\ raBufRecs = <<>>
  /\ raTruncated = FALSE
  /\ recovered = NoRecovered
  /\ logged = <<>>
  /\ healed = FALSE
  /\ faults = 0
  /\ session = 1
  /\ nAppends = 0
  /\ data = NoData
  /\ call = NoCall
  /\ wmu = 0
  /\ smu = 0
  /\ lockers = [c \in Callers |-> NoLocker]

Init == Opened /\ input = NoRecord /\ payload = <<>>

\* A new process opens the directory again, after a crash or after Close.
Reopen ==
  /\ session < MaxSessions
  /\ proc = "down" \/ (pc = "idle" /\ closed /\ file = 0)
  /\ Open(disk)
  /\ session' = session + 1
  /\ result' = Ret("Open", FALSE, <<>>)
  /\ accepted' = <<>>
  /\ bufRecs' = <<>>
  /\ prior' = written
  /\ ForgetRead
  /\ data' = NoData
  /\ call' = NoCall
  /\ healed' = FALSE
  /\ UNCHANGED <<maxSize, faults, written, durable, drained, nAppends, codecVars, lockVars,
                 logged>>

\* The process dies: the handle, the buffer and both goroutines are gone.
Die(op) ==
  /\ proc' = "down"
  /\ buffer' = <<>>
  /\ file' = 0
  /\ segmentID' = 0
  /\ closed' = FALSE
  /\ stopCh' = FALSE
  /\ stoppedCh' = FALSE
  /\ pc' = "idle"
  /\ pcLoop' = "done"
  /\ result' = Ret(op, TRUE, <<>>)
  /\ accepted' = <<>>
  /\ bufRecs' = <<>>
  /\ ForgetRead
  /\ data' = NoData
  /\ call' = NoCall
  /\ UNCHANGED <<codecVars, lockVars>>

\* Append as it would be without the test of w.closed
AppendRecordUnchecked(r) ==
  /\ proc = "up" /\ pc \in {"idle", "close_stop", "close_wait"}
  /\ nAppends < MaxAppends
  /\ buffer' = buffer \o Frame(encodeRecord(r))
  /\ bufRecs' = Append(bufRecs, r)
  /\ accepted' = Append(accepted, r)
  /\ logged' = Append(logged, r)
  /\ nAppends' = nAppends + 1
  /\ result' = Ret("Append", FALSE, <<>>)
  /\ ForgetRead
  /\ UNCHANGED <<disk, file, segmentID, written, closed, pc, proc, histVars, loopVars, envVars, healed,
                 codecVars, lockVars>>

\* Append as it would be without the buffer: the frame goes to the active
\* segment at once
AppendRecordWriteThrough(r) ==
  /\ proc = "up" /\ pc \in {"idle", "close_stop", "close_wait"}
  /\ IF closed
     THEN /\ result' = Ret("Append", TRUE, <<>>)
          /\ UNCHANGED <<disk, written, accepted, nAppends, logged>>
     ELSE /\ nAppends < MaxAppends
          /\ disk' = [disk EXCEPT ![file] = @ \o Frame(encodeRecord(r))]
          /\ written' = Append(written, r)
          /\ accepted' = Append(accepted, r)
          /\ logged' = Append(logged, r)
          /\ nAppends' = nAppends + 1
          /\ result' = Ret("Append", FALSE, <<>>)
  /\ ForgetRead
  /\ UNCHANGED <<buffer, bufRecs, file, segmentID, closed, pc, proc, histVars, loopVars, envVars, healed,
                 codecVars, lockVars>>

\* Append, under w.mu from its first line to its last; the caller may be
\* another goroutine than the one inside Close.
AppendRecord(r) ==
  /\ proc = "up" /\ pc \in {"idle", "close_stop", "close_wait"}
  /\ IF closed
     THEN /\ result' = Ret("Append", TRUE, <<>>)
          /\ UNCHANGED <<buffer, bufRecs, accepted, nAppends, logged>>
     ELSE /\ nAppends < MaxAppends
          /\ buffer' = buffer \o Frame(encodeRecord(r))
          /\ bufRecs' = Append(bufRecs, r)
          /\ accepted' = Append(accepted, r)
          /\ logged' = Append(logged, r)
          /\ nAppends' = nAppends + 1
          /\ result' = Ret("Append", FALSE, <<>>)
  /\ ForgetRead
  /\ UNCHANGED <<disk, file, segmentID, written, closed, pc, proc, histVars, loopVars, envVars, healed,
                 codecVars, lockVars>>

WalAppend == \E r \in Records : AppendRecord(r) /\ UNCHANGED storeVars

\* The records of writer w in a sequence of records
OfWriter(recs, w) == SelectSeq(recs, LAMBDA r : r.Key = WriterRecord(w, 1).Key)

\* Append called by writer goroutine w with its next record
WriterAppend(w) ==
  /\ proc = "up" /\ pc \in {"idle", "close_stop", "close_wait"}
  /\ Len(OfWriter(accepted, w)) < PerWriter
  /\ LET r == WriterRecord(w, Len(OfWriter(accepted, w)) + 1)
     IN IF closed
        THEN /\ result' = Ret("Append", TRUE, <<>>)
             /\ UNCHANGED <<buffer, bufRecs, accepted, nAppends, logged>>
        ELSE /\ buffer' = buffer \o Frame(encodeRecord(r))
             /\ bufRecs' = Append(bufRecs, r)
             /\ accepted' = Append(accepted, r)
             /\ logged' = Append(logged, r)
             /\ nAppends' = nAppends + 1
             /\ result' = Ret("Append", FALSE, <<>>)
  /\ ForgetRead
  /\ UNCHANGED <<disk, file, segmentID, written, closed, pc, proc, histVars, loopVars, envVars, healed,
                 appVars>>

ConcurrentAppend == \E w \in Writers : WriterAppend(w)

\* flushOnce as it would be without w.buffer = w.buffer[:0] at its end
flushBodyKeep ==
  IF Len(buffer) = 0
  THEN UNCHANGED walVars
  ELSE LET rotate == Len(disk[file]) + Len(buffer) > maxSize
           seg == IF rotate THEN segmentID + 1 ELSE file
           d == IF rotate THEN openSegment(disk, seg) ELSE disk
       IN /\ disk' = [d EXCEPT ![seg] = @ \o buffer]
          /\ file' = seg
          /\ segmentID' = IF rotate THEN segmentID + 1 ELSE segmentID
          /\ written' = written \o bufRecs
          /\ UNCHANGED <<buffer, bufRecs>>

\* flushOnce as it would be with maxSize as a hard ceiling: the active
\* segment is filled up to maxSize and the rest goes into the next one
flushBodySplit ==
  IF Len(buffer) = 0
  THEN UNCHANGED walVars
  ELSE LET rotate == Len(disk[file]) + Len(buffer) > maxSize
           room == IF maxSize > Len(disk[file]) THEN maxSize - Len(disk[file]) ELSE 0
           seg == IF rotate THEN segmentID + 1 ELSE file
           d == IF rotate THEN openSegment(disk, seg) ELSE disk
           head == IF rotate THEN SubSeq(buffer, 1, room) ELSE <<>>
           tail == IF rotate THEN SubSeq(buffer, room + 1, Len(buffer)) ELSE buffer
       IN /\ disk' = [[d EXCEPT ![file] = @ \o head] EXCEPT ![seg] = @ \o tail]
          /\ file' = seg
          /\ segmentID' = IF rotate THEN segmentID + 1 ELSE segmentID
          /\ buffer' = <<>>
          /\ written' = written \o bufRecs
          /\ bufRecs' = <<>>

\* flushOnce below the nil check: rotate when the buffer would not fit,
\* write the buffer to the active segment, sync, clear the buffer.
flushBody ==
  IF Len(buffer) = 0
  THEN UNCHANGED walVars
  ELSE LET rotate == Len(disk[file]) + Len(buffer) > maxSize
           seg == IF rotate THEN segmentID + 1 ELSE file
           d == IF rotate THEN openSegment(disk, seg) ELSE disk
       IN /\ disk' = [d EXCEPT ![seg] = @ \o buffer]
          /\ file' = seg
          /\ segmentID' = IF rotate THEN segmentID + 1 ELSE segmentID
          /\ buffer' = <<>>
          /\ written' = written \o bufRecs
          /\ bufRecs' = <<>>

\* flushOnce called by the caller (Flush and ForceFlush); the caller may be
\* another goroutine than the one inside Close
callerFlush ==
  /\ proc = "up" /\ pc \in {"idle", "close_stop", "close_wait"} /\ wmu = 0
  /\ IF file = 0
     THEN /\ Die("panic")
          /\ UNCHANGED <<disk, written, durable>>
     ELSE /\ flushBody
          /\ result' = Ret("Flush", FALSE, <<>>)
          /\ durable' = written'
          /\ ForgetRead
          /\ UNCHANGED <<proc, closed, pc, accepted, loopVars, appVars>>
  /\ UNCHANGED <<prior, drained, envVars, ghostVars, nAppends>>

Flush == callerFlush
ForceFlush == callerFlush

\* The ticker case as it would be without the call of flushOnce
TickIdle ==
  /\ proc = "up" /\ pcLoop = "select"
  /\ UNCHANGED vars

\* flushLoop, case <-ticker.C
Tick ==
  /\ proc = "up" /\ pcLoop = "select" /\ wmu = 0
  /\ IF file = 0
     THEN /\ Die("panic")
          /\ UNCHANGED <<disk, written>>
     ELSE /\ flushBody
          /\ UNCHANGED <<proc, closed, pc, accepted, result, loopVars, readVars, appVars>>
  /\ UNCHANGED <<histVars, envVars, ghostVars, nAppends>>

\* flushLoop, case <-w.stopCh: the final flush, then return
Stop ==
  /\ proc = "up" /\ pcLoop = "select" /\ stopCh /\ wmu = 0
  /\ IF file = 0
     THEN /\ Die("panic")
          /\ UNCHANGED <<disk, written>>
     ELSE /\ flushBody
          /\ pcLoop' = "exiting"
          /\ UNCHANGED <<proc, closed, pc, accepted, result, stopCh, stoppedCh, readVars,
                         appVars>>
  /\ UNCHANGED <<histVars, envVars, ghostVars, nAppends>>

\* flushLoop's return as it would be without the deferred close(w.stoppedCh)
LoopExitSilent ==
  /\ proc = "up" /\ pcLoop = "exiting"
  /\ pcLoop' = "done"
  /\ UNCHANGED <<walVars, proc, closed, pc, stopCh, stoppedCh, result, accepted, histVars,
                 readVars, envVars, ghostVars, nAppends, appVars>>

\* flushLoop's deferred close(w.stoppedCh)
LoopExit ==
  /\ proc = "up" /\ pcLoop = "exiting"
  /\ stoppedCh' = TRUE
  /\ pcLoop' = "done"
  /\ UNCHANGED <<walVars, proc, closed, pc, stopCh, result, accepted, histVars, readVars, envVars, ghostVars,
                 nAppends, appVars>>

\* Close as it would be without the test of w.closed
CloseBeginUnchecked ==
  /\ proc = "up" /\ (pc = "idle" \/ (closed /\ pc \in {"close_stop", "close_wait"}))
  /\ closed' = TRUE
  /\ pc' = "close_stop"
  /\ result' = Ret("call", FALSE, <<>>)
  /\ ForgetRead
  /\ UNCHANGED <<walVars, proc, accepted, histVars, loopVars, envVars, ghostVars, nAppends, appVars>>

\* Close up to the release of the lock; on a closed handle it returns at
\* once, also while the Close of another goroutine is still under way.
CloseBegin ==
  /\ proc = "up" /\ (pc = "idle" \/ (closed /\ pc \in {"close_stop", "close_wait"}))
  /\ IF closed
     THEN /\ result' = Ret("Close", FALSE, <<>>)
          /\ UNCHANGED <<closed, pc>>
     ELSE /\ closed' = TRUE
          /\ pc' = "close_stop"
          /\ result' = Ret("call", FALSE, <<>>)
  /\ ForgetRead
  /\ UNCHANGED <<walVars, proc, accepted, histVars, loopVars, envVars, ghostVars, nAppends, appVars>>

\* close(w.stopCh)
CloseStop ==
  /\ proc = "up" /\ pc = "close_stop"
  /\ stopCh' = TRUE
  /\ pc' = "close_wait"
  /\ UNCHANGED <<walVars, proc, closed, stoppedCh, pcLoop, result, accepted, histVars, readVars,
                 envVars, ghostVars, nAppends, appVars>>

\* <-w.stoppedCh, then the file handle is closed and set to nil
CloseWait ==
  /\ proc = "up" /\ pc = "close_wait" /\ stoppedCh
  /\ file' = 0
  /\ pc' = "idle"
  /\ result' = Ret("Close", FALSE, <<>>)
  /\ drained' = drained \o accepted
  /\ UNCHANGED <<disk, buffer, segmentID, written, bufRecs, proc, closed, accepted, prior, durable,
                 loopVars, readVars, envVars, ghostVars, nAppends, appVars>>

\* ReadAll up to its loop: list the segments
listSegments ==
  /\ proc = "up" /\ pc = "idle"
  /\ raFiles' = segmentFiles(disk)
  /\ raRecords' = <<>>
  /\ raWritten' = written
  /\ raBufRecs' = bufRecs
  /\ raTruncated' = FALSE
  /\ pc' = "readall"
  /\ result' = Ret("call", FALSE, <<>>)
  /\ UNCHANGED <<walVars, proc, closed, accepted, histVars, loopVars, envVars, ghostVars, nAppends,
                 codecVars, lockVars>>

\* ReadAll called on the handle directly
ReadAllBegin == listSegments /\ UNCHANGED <<storeVars, recovered>>

\* ReadAll: one iteration of the loop over the segments
ReadAllFile ==
  /\ proc = "up" /\ pc = "readall" /\ raFiles # <<>>
  /\ LET path == Head(raFiles)
         s == scanFrom(disk[path], 0, <<>>)
         r == readAllFromFile(disk[path], ReadOnly)
     IN IF r.panic
        THEN /\ Die("panic")
             /\ UNCHANGED <<disk, written, healed>>
        ELSE /\ disk' = [disk EXCEPT ![path] = r.contents]
             /\ raRecords' = raRecords \o r.records
             /\ raFiles' = Tail(raFiles)
             /\ raTruncated' = (raTruncated \/ s.cut >= 0)
             /\ healed' = (healed \/ (s.cut >= 0 /\ path = file /\ accepted = <<>>))
             /\ UNCHANGED <<buffer, file, segmentID, written, bufRecs, proc, closed, pc, result,
                            accepted, loopVars, raWritten, raBufRecs, recovered, appVars>>
  /\ UNCHANGED <<histVars, envVars, logged, nAppends>>

\* ReadAll: return records, nil
ReadAllReturn ==
  /\ proc = "up" /\ pc = "readall" /\ raFiles = <<>>
  /\ call.kind = "none"
  /\ result' = Ret("ReadAll", FALSE, raRecords)
  /\ raRecords' = <<>>
  /\ pc' = "idle"
  /\ recovered' = NoRecovered
  /\ UNCHANGED <<walVars, proc, closed, accepted, histVars, loopVars, raFiles, raWritten, raBufRecs,
                 raTruncated, envVars, ghostVars, nAppends, appVars>>

\* ------------------------------------------------------------------- codec
\* encodeRecord on the input, then decodeRecord on the bytes it returned
RoundTrip ==
  /\ result.op = "Open" /\ input # NoRecord
  /\ LET d == decodeRecord(encodeRecord(input))
     IN result' = IF d.kind = "panic" THEN Ret("panic", TRUE, <<>>)
                  ELSE Ret("decodeRecord", d.kind = "err", IF d.kind = "ok" THEN <<d.rec>> ELSE <<>>)
  /\ UNCHANGED <<walVars, loopVars, readVars, envVars, ghostVars, histVars, proc, closed, pc, accepted,
                 nAppends, appVars>>

\* decodeRecord on a payload that did not come from encodeRecord
DecodePayload ==
  /\ result.op = "Open" /\ input = NoRecord
  /\ LET d == decodeRecord(payload)
     IN result' = IF d.kind = "panic" THEN Ret("panic", TRUE, <<>>)
                  ELSE Ret("decodeRecord", d.kind = "err", IF d.kind = "ok" THEN <<d.rec>> ELSE <<>>)
  /\ UNCHANGED <<walVars, loopVars, readVars, envVars, ghostVars, histVars, proc, closed, pc, accepted,
                 nAppends, appVars>>

\* readAllFromFile on a segment that holds the one frame Append builds for
\* the input
ScanFrame ==
  /\ result.op = "Open" /\ input # NoRecord
  /\ LET r == readAllFromFile(Frame(encodeRecord(input)), ReadOnly)
     IN result' = IF r.panic THEN Ret("panic", TRUE, <<>>)
                  ELSE Ret("readAllFromFile", FALSE, r.records)
  /\ UNCHANGED <<walVars, loopVars, readVars, envVars, ghostVars, histVars, proc, closed, pc, accepted,
                 nAppends, appVars>>

\* ------------------------------------------------------------------- store
\* s.data[key] = value and delete(s.data, key) on a Go map
MapSet(m, key, value) == [k \in DOMAIN m \cup {key} |-> IF k = key THEN value ELSE m[k]]
MapDelete(m, key) == [k \in DOMAIN m \ {key} |-> m[k]]

\* The switch of Recover as it would be with a Set that extends the value
\* the key has instead of replacing it
ApplyRecordConcat(m, rec) ==
  IF rec.Op = OpSet
  THEN MapSet(m, rec.Key, (IF rec.Key \in DOMAIN m THEN m[rec.Key] ELSE <<>>) \o rec.Value)
  ELSE IF rec.Op = OpDelete THEN MapDelete(m, rec.Key)
  ELSE m

\* The switch of Recover on one record; other ops fall through
ApplyRecord(m, rec) ==
  IF rec.Op = OpSet THEN MapSet(m, rec.Key, rec.Value)
  ELSE IF rec.Op = OpDelete THEN MapDelete(m, rec.Key)
  ELSE m

\* The loop of Recover over the records
RECURSIVE Replay(_, _)
Replay(records, m) ==
  IF records = <<>> THEN m ELSE Replay(Tail(records), ApplyRecord(m, Head(records)))

\* What a Store step leaves alone besides the handle
storeFrame ==
  UNCHANGED <<walVars, loopVars, readVars, envVars, ghostVars, histVars, proc, closed, pc, accepted,
              nAppends, codecVars, lockVars>>

\* Set as it would be with the map written first and whatever Append returns
SetAppendEager(key, value) ==
  /\ call.kind = "none"
  /\ AppendRecord([Op |-> OpSet, Key |-> key, Value |-> value])
  /\ call' = NoCall
  /\ data' = MapSet(data, key, value)

\* Store.Set up to the return of Append
SetAppend(key, value) ==
  /\ call.kind = "none"
  /\ LET rec == [Op |-> OpSet, Key |-> key, Value |-> value]
     IN /\ AppendRecord(rec)
        /\ call' = IF closed THEN NoCall ELSE [kind |-> "Set", rec |-> rec]
  /\ data' = data

StoreSet == \E key \in StoreKeys : \E value \in StoreValues : SetAppend(key, value)

\* Store.Set from s.mu.Lock on
SetApply ==
  /\ proc = "up" /\ call.kind = "Set"
  /\ data' = MapSet(data, call.rec.Key, call.rec.Value)
  /\ call' = NoCall
  /\ result' = Ret("Set", FALSE, <<>>)
  /\ storeFrame

\* Delete as it would be with a test for the key: a key that is not in the
\* map is an error and nothing is logged
DeleteAppendIfPresent(key) ==
  /\ call.kind = "none"
  /\ IF key \in DOMAIN data
     THEN LET rec == [Op |-> OpDelete, Key |-> key, Value |-> <<>>]
          IN /\ AppendRecord(rec)
             /\ call' = IF closed THEN NoCall ELSE [kind |-> "Delete", rec |-> rec]
     ELSE /\ proc = "up" /\ pc = "idle"
          /\ result' = Ret("Delete", TRUE, <<>>)
          /\ call' = NoCall
          /\ ForgetRead
          /\ UNCHANGED <<walVars, loopVars, envVars, ghostVars, histVars, proc, closed, pc, accepted,
                         nAppends, codecVars, lockVars>>
  /\ data' = data

\* Store.Delete up to the return of Append
DeleteAppend(key) ==
  /\ call.kind = "none"
  /\ LET rec == [Op |-> OpDelete, Key |-> key, Value |-> <<>>]
     IN /\ AppendRecord(rec)
        /\ call' = IF closed THEN NoCall ELSE [kind |-> "Delete", rec |-> rec]
  /\ data' = data

StoreDelete == \E key \in StoreKeys : DeleteAppend(key)

\* Store.Delete from s.mu.Lock on
DeleteApply ==
  /\ proc = "up" /\ call.kind = "Delete"
  /\ data' = MapDelete(data, call.rec.Key)
  /\ call' = NoCall
  /\ result' = Ret("Delete", FALSE, <<>>)
  /\ storeFrame

\* Set and Delete on a Store with two keys
KeysSet == \E key \in TwoKeys : SetAppend(key, Val1)
KeysDelete == \E key \in TwoKeys : DeleteAppend(key)

\* What ReadAll returns on directory d when nothing else runs: the records of
\* the segments in the order of segmentFiles
RECURSIVE scanSegments(_, _)
scanSegments(d, files) ==
  IF files = <<>> THEN <<>>
  ELSE readAllFromFile(d[Head(files)], ReadOnly).records \o scanSegments(d, Tail(files))
\* The map of a new Store after Recover on directory d
RecoveredMap(d) == Replay(scanSegments(d, segmentFiles(d)), NoData)

\* What a step of a Store caller between its locks leaves alone
lockFrame ==
  UNCHANGED <<loopVars, readVars, envVars, healed, histVars, proc, closed, pc, call, codecVars>>

\* Set or Delete as it would be with s.mu taken on entry, around Append too
LockBoth(c, rec) ==
  /\ proc = "up" /\ lockers[c].at = "idle"
  /\ nAppends < MaxAppends
  /\ wmu = 0 /\ smu = 0
  /\ wmu' = c /\ smu' = c
  /\ lockers' = [lockers EXCEPT ![c] = [at |-> "append", rec |-> rec]]
  /\ UNCHANGED <<walVars, accepted, nAppends, result, data, logged>>
  /\ lockFrame

\* Store.Set or Store.Delete with record rec, called by goroutine c: the
\* record is built, Append is entered and takes w.mu
LockWal(c, rec) ==
  /\ proc = "up" /\ lockers[c].at = "idle"
  /\ nAppends < MaxAppends
  /\ wmu = 0
  /\ wmu' = c
  /\ lockers' = [lockers EXCEPT ![c] = [at |-> "append", rec |-> rec]]
  /\ UNCHANGED <<walVars, accepted, nAppends, result, data, smu, logged>>
  /\ lockFrame

\* The body of Append and its deferred w.mu.Unlock; Set and Delete return
\* the error of Append without touching the map
AppendUnlock(c) ==
  /\ proc = "up" /\ lockers[c].at = "append"
  /\ LET rec == lockers[c].rec
     IN IF closed
        THEN /\ result' = Ret("Append", TRUE, <<>>)
             /\ lockers' = [lockers EXCEPT ![c] = NoLocker]
             /\ UNCHANGED <<buffer, bufRecs, accepted, nAppends, logged>>
        ELSE /\ buffer' = buffer \o Frame(encodeRecord(rec))
             /\ bufRecs' = Append(bufRecs, rec)
             /\ accepted' = Append(accepted, rec)
             /\ logged' = Append(logged, rec)
             /\ nAppends' = nAppends + 1
             /\ result' = Ret("Append", FALSE, <<>>)
             /\ lockers' = [lockers EXCEPT ![c].at = "lock"]
  /\ wmu' = 0
  /\ UNCHANGED <<disk, file, segmentID, written, data, smu>>
  /\ lockFrame

\* s.mu.Lock in Set and Delete
LockMap(c) ==
  /\ proc = "up" /\ lockers[c].at = "lock"
  /\ smu = 0
  /\ smu' = c
  /\ lockers' = [lockers EXCEPT ![c].at = "apply"]
  /\ UNCHANGED <<walVars, accepted, nAppends, result, data, wmu, logged>>
  /\ lockFrame

\* The map update of Set and Delete and the deferred s.mu.Unlock
ApplyUnlock(c) ==
  /\ proc = "up" /\ lockers[c].at = "apply"
  /\ data' = ApplyRecord(data, lockers[c].rec)
  /\ smu' = 0
  /\ lockers' = [lockers EXCEPT ![c] = NoLocker]
  /\ result' = Ret(IF lockers[c].rec.Op = OpSet THEN "Set" ELSE "Delete", FALSE, <<>>)
  /\ UNCHANGED <<walVars, accepted, nAppends, wmu, logged>>
  /\ lockFrame

\* Store.Commit: forces a flush of the handle
Commit == call.kind = "none" /\ callerFlush

\* Store.Recover: the call of ReadAll
RecoverBegin ==
  /\ call.kind = "none"
  /\ listSegments
  /\ recovered' = [recovered EXCEPT !.seen = disk]
  /\ call' = [kind |-> "Recover", rec |-> NoRecord]
  /\ data' = data

\* Store.Recover: ReadAll has returned; replay its records into the map
RecoverReturn ==
  /\ proc = "up" /\ pc = "readall" /\ raFiles = <<>>
  /\ call.kind = "Recover"
  /\ data' = Replay(raRecords, data)
  /\ call' = NoCall
  /\ result' = Ret("Recover", FALSE, <<>>)
  /\ raRecords' = <<>>
  /\ pc' = "idle"
  /\ recovered' = IF recovered.seen # disk THEN NoRecovered
                  ELSE [data |-> data', disk |-> disk, seen |-> disk,
                        n |-> IF recovered.n > 0 /\ recovered.disk = disk THEN 2 ELSE 1]
  /\ UNCHANGED <<walVars, proc, closed, accepted, histVars, loopVars, raFiles, raWritten, raBufRecs,
                 raTruncated, envVars, ghostVars, nAppends, codecVars, lockVars>>

\* ------------------------------------------------------------- environment
\* Number of leading records of recs whose frames lie whole within n bytes
RECURSIVE WholeFrames(_, _)
WholeFrames(recs, n) ==
  IF recs = <<>> THEN 0
  ELSE LET size == Len(Frame(encodeRecord(Head(recs))))
       IN IF size > n THEN 0 ELSE 1 + WholeFrames(Tail(recs), n - size)

\* The process is killed outside a flush: the buffer is lost.
Crash ==
  /\ proc = "up"
  /\ Die("crash")
  /\ UNCHANGED <<disk, written, histVars, envVars, ghostVars, nAppends>>

\* The process is killed inside flushOnce, after the rotation decision and
\* while w.file.Write is under way: only the first n bytes reach the file.
CrashInFlush ==
  /\ faults < MaxFaults
  /\ proc = "up" /\ file # 0 /\ Len(buffer) > 0
  /\ \E n \in 1..(Len(buffer) - 1) :
       LET rotate == Len(disk[file]) + Len(buffer) > maxSize
           seg == IF rotate THEN segmentID + 1 ELSE file
           d == IF rotate THEN openSegment(disk, seg) ELSE disk
       IN /\ disk' = [d EXCEPT ![seg] = @ \o SubSeq(buffer, 1, n)]
          /\ written' = written \o SubSeq(bufRecs, 1, WholeFrames(bufRecs, n))
  /\ faults' = faults + 1
  /\ Die("crash")
  /\ UNCHANGED <<histVars, maxSize, session, nAppends, ghostVars>>

\* flushOnce with an I/O call that returns an error: the Sync, Close or
\* openSegment of a rotation (nothing of the buffer written), w.file.Write
\* (fewer bytes than the buffer written) or the final Sync (all written).
\* Every one of them ends in panic(err).
ioFailure ==
  /\ faults < MaxFaults
  /\ proc = "up" /\ file # 0 /\ Len(buffer) > 0
  /\ LET rotate == Len(disk[file]) + Len(buffer) > maxSize
         seg == IF rotate THEN segmentID + 1 ELSE file
     IN \E stage \in {"rotate", "write", "sync"} :
          \E n \in 0..Len(buffer) :
            /\ stage = "rotate" => (rotate /\ n = 0)
            /\ stage = "write" => n < Len(buffer)
            /\ stage = "sync" => n = Len(buffer)
            /\ disk' = IF stage = "rotate" THEN disk
                       ELSE [openSegment(disk, seg) EXCEPT ![seg] = @ \o SubSeq(buffer, 1, n)]
            /\ written' = written \o SubSeq(bufRecs, 1, WholeFrames(bufRecs, n))
  /\ faults' = faults + 1
  /\ Die("panic")
  /\ UNCHANGED <<histVars, maxSize, session, nAppends, ghostVars>>

\* The failure hits a flush the caller asked for (Flush, ForceFlush)
FlushFails == pc = "idle" /\ ioFailure

\* The failure hits a flush of the background cycle
TickFails == pcLoop = "select" /\ ioFailure

\* A stored byte is overwritten behind the handle's back (as the tests do
\* with WriteAt).
CorruptByte ==
  /\ faults < MaxFaults
  /\ \E s \in DOMAIN disk : \E p \in 1..Len(disk[s]) :
       /\ disk[s][p] # CorruptValue
       /\ disk' = [disk EXCEPT ![s][p] = CorruptValue]
  /\ faults' = faults + 1
  /\ UNCHANGED <<maxSize, proc, buffer, file, segmentID, closed, loopVars, pc, result, accepted,
                 bufRecs, written, histVars, readVars, session, nAppends, appVars, ghostVars>>

\* ---------------------------------------------------------- specifications
\* Normal operation: one caller, the flush goroutine, crashes and reopening.
Next ==
  \/ Reopen
  \/ WalAppend
  \/ Flush
  \/ ForceFlush
  \/ Tick
  \/ Stop
  \/ LoopExit
  \/ CloseBegin
  \/ CloseStop
  \/ CloseWait
  \/ ReadAllBegin
  \/ ReadAllFile
  \/ ReadAllReturn
  \/ Crash

Spec == Init /\ [][Next]_vars

\* Operation under storage faults: torn writes and overwritten bytes.
NextFault ==
  \/ Reopen
  \/ WalAppend
  \/ Flush
  \/ Tick
  \/ ReadAllBegin
  \/ ReadAllFile
  \/ ReadAllReturn
  \/ CrashInFlush
  \/ CorruptByte
  \/ FlushFails
  \/ TickFails

SpecFault == Init /\ [][NextFault]_vars

\* Crashes and nothing else going wrong: the process may be killed at any
\* point, also part way through the write of a flush, and the directory is
\* opened again.
NextCrash ==
  \/ Reopen
  \/ WalAppend
  \/ Flush
  \/ Tick
  \/ ReadAllBegin
  \/ ReadAllFile
  \/ ReadAllReturn
  \/ Crash
  \/ CrashInFlush

SpecCrash == Init /\ [][NextCrash]_vars

\* The life cycle of one handle: appends, flushes, reads and Close, no crash.
NextLifecycle ==
  \/ WalAppend
  \/ Flush
  \/ Tick
  \/ Stop
  \/ LoopExit
  \/ CloseBegin
  \/ CloseStop
  \/ CloseWait
  \/ ReadAllBegin
  \/ ReadAllFile
  \/ ReadAllReturn

SpecLifecycle == Init /\ [][NextLifecycle]_vars

\* The same handle under a fair scheduler: the goroutine inside Close and
\* the flush goroutine are not held up forever, and a select with a closed
\* stopCh among its ready cases takes that case in the end.
SpecCloseLive ==
  /\ Init /\ [][NextLifecycle]_vars
  /\ WF_vars(CloseStop) /\ WF_vars(Stop) /\ WF_vars(LoopExit) /\ WF_vars(CloseWait)

\* An open handle left to the background cycle: appends and reads, no
\* explicit flush, no Close, no crash. The ticker keeps firing and the flush
\* goroutine is scheduled: a flush that has something to write is not put
\* off forever.
NextLive ==
  \/ WalAppend
  \/ Tick
  \/ ReadAllBegin
  \/ ReadAllFile
  \/ ReadAllReturn

SpecLive == Init /\ [][NextLive]_vars /\ WF_vars(Tick)

\* The codec alone, on every record within the bounds.
InitCodec ==
  /\ Opened
  /\ \/ input \in CodecRecords \cup UnknownOpRecords /\ payload = <<>>
     \/ input = NoRecord /\ payload \in Payloads
NextCodec ==
  \/ RoundTrip
  \/ DecodePayload
  \/ ScanFrame
SpecCodec == InitCodec /\ [][NextCodec]_vars

\* Concurrent writers, the flush goroutine, and a caller of Flush and ReadAll.
NextWriters ==
  \/ ConcurrentAppend
  \/ Tick
  \/ Flush
  \/ ReadAllBegin
  \/ ReadAllFile
  \/ ReadAllReturn

SpecWriters == Init /\ [][NextWriters]_vars

\* A Store on the handle: one caller of Set, Delete, Commit and Recover, a
\* second goroutine that may close the handle, crashes and reopening.
NextStore ==
  \/ Reopen
  \/ StoreSet
  \/ SetApply
  \/ StoreDelete
  \/ DeleteApply
  \/ Commit
  \/ RecoverBegin
  \/ ReadAllFile
  \/ RecoverReturn
  \/ Tick
  \/ Stop
  \/ LoopExit
  \/ CloseBegin
  \/ CloseStop
  \/ CloseWait
  \/ Crash

SpecStore == Init /\ [][NextStore]_vars

\* The write-through path of one Store on one handle: no crash, no reopening.
NextWriteThrough ==
  \/ StoreSet
  \/ SetApply
  \/ StoreDelete
  \/ DeleteApply
  \/ Commit
  \/ RecoverBegin
  \/ ReadAllFile
  \/ RecoverReturn
  \/ Tick
  \/ Stop
  \/ LoopExit
  \/ CloseBegin
  \/ CloseStop
  \/ CloseWait

SpecWriteThrough == Init /\ [][NextWriteThrough]_vars

\* One Store with two keys on one open handle: Set, Delete, Commit, Recover
\* and the background flush.
NextKeys ==
  \/ KeysSet
  \/ SetApply
  \/ KeysDelete
  \/ DeleteApply
  \/ Commit
  \/ RecoverBegin
  \/ ReadAllFile
  \/ RecoverReturn
  \/ Tick

SpecKeys == Init /\ [][NextKeys]_vars

\* Goroutines inside Set and Delete of one Store at the same time, lock by
\* lock, and the background flush, which needs w.mu as well.
NextLocks ==
  \/ \E c \in Callers : \E rec \in LockRecords : LockWal(c, rec)
  \/ \E c \in Callers : AppendUnlock(c)
  \/ \E c \in Callers : LockMap(c)
  \/ \E c \in Callers : ApplyUnlock(c)
  \/ Tick

SpecLocks == Init /\ [][NextLocks]_vars

TypeOK ==
  /\ proc \in {"up", "down"}
  /\ pc \in {"idle", "readall", "close_stop", "close_wait"}
  /\ pcLoop \in {"select", "exiting", "done"}
  /\ file \in Nat /\ (file # 0 => file \in DOMAIN disk /\ file = segmentID)
  /\ Len(bufRecs) <= nAppends
  /\ call.kind \in {"none", "Set", "Delete", "Recover"}
  /\ wmu \in 0..NCallers /\ smu \in 0..NCallers
  /\ healed \in BOOLEAN
  /\ Len(logged) = nAppends
  /\ \A c \in Callers : lockers[c].at \in {"idle", "append", "lock", "apply"}
  /\ DOMAIN data \subseteq StoreKeys \cup {r.Key : r \in Records}

\* ------------------------------------------- the on-disk format, as specified
\* A payload laid out as [op:1][keyLen:4][valLen:4][key][value] with op Set or
\* Delete and keyLen + valLen equal to the bytes after the 9-byte header.
WellFormed(p) ==
  /\ Len(p) >= 9
  /\ p[1] \in {OpSet, OpDelete}
  /\ p[2] = 0 /\ p[3] = 0 /\ p[6] = 0 /\ p[7] = 0
  /\ (p[4] * 256 + p[5]) + (p[8] * 256 + p[9]) = Len(p) - 9

\* The record a well-formed payload stands for.
RecordOf(p) ==
  LET keyLen == p[4] * 256 + p[5]
  IN [Op |-> p[1], Key |-> Slice(p, 9, 9 + keyLen), Value |-> Slice(p, 9 + keyLen, Len(p))]

HeaderAt(f, off) == off + 12 <= Len(f) /\ Uint32(Slice(f, off, off + 4)) = recordMagic
LengthAt(f, off) == Uint32(Slice(f, off + 4, off + 8))
\* a frame header whose declared length exceeds the bytes that remain
TornAt(f, off) == HeaderAt(f, off) /\ U32Gt(LengthAt(f, off), Len(f) - (off + 12))
PayloadAt(f, off) == Slice(f, off + 12, off + 12 + IntOf(LengthAt(f, off)))
ValidFrameAt(f, off) ==
  /\ HeaderAt(f, off)
  /\ ~TornAt(f, off)
  /\ ChecksumIEEE(PayloadAt(f, off)) = Uint32(Slice(f, off + 8, off + 12))
  /\ WellFormed(PayloadAt(f, off))

\* End offset of the last frame of the longest run of valid frames from off
RECURSIVE ValidEnd(_, _)
ValidEnd(f, off) ==
  IF ValidFrameAt(f, off) THEN ValidEnd(f, off + 12 + IntOf(LengthAt(f, off))) ELSE off

\* The records of that run of valid frames
RECURSIVE FrameRecords(_, _)
FrameRecords(f, off) ==
  IF ValidFrameAt(f, off)
  THEN <<RecordOf(PayloadAt(f, off))>> \o FrameRecords(f, off + 12 + IntOf(LengthAt(f, off)))
  ELSE <<>>

\* A bad frame of one of the four kinds: wrong magic, short payload,
\* checksum mismatch, undecodable payload.
BadFrameAt(f, off) ==
  \/ off + 4 <= Len(f) /\ Uint32(Slice(f, off, off + 4)) # recordMagic
  \/ TornAt(f, off)
  \/ HeaderAt(f, off) /\ ~TornAt(f, off) /\ ~ValidFrameAt(f, off)

Count(r, s) == Cardinality({i \in 1..Len(s) : s[i] = r})
\* every record of need occurs in got at least as often as in need
ContainsAll(need, got) == \A i \in 1..Len(need) : Count(need[i], need) <= Count(need[i], got)
OpKeys(s) == [i \in 1..Len(s) |-> <<s[i].Op, s[i].Key>>]
IsPrefix(a, b) == Len(a) <= Len(b) /\ a = SubSeq(b, 1, Len(a))
\* the frames of a sequence of records, one after the other
RECURSIVE FramesOf(_)
FramesOf(recs) ==
  IF recs = <<>> THEN <<>> ELSE Frame(encodeRecord(Head(recs))) \o FramesOf(Tail(recs))
\* the bytes of the segments of a directory, in the order of the given names
RECURSIVE BytesOf(_, _)
BytesOf(d, files) ==
  IF files = <<>> THEN <<>> ELSE d[Head(files)] \o BytesOf(d, Tail(files))
RECURSIVE TotalBytes(_)
TotalBytes(recs) ==
  IF recs = <<>> THEN 0 ELSE Len(Frame(encodeRecord(Head(recs)))) + TotalBytes(Tail(recs))

\* ------------------------------------------------------------------ claims
\* C1: on a freshly opened empty directory, a ReadAll that starts after the
\* final flush (nothing left in the buffer) returns, without error, exactly
\* the records appended so far, in append order.
C1_AppendOrder ==
  (result.op = "ReadAll" /\ session = 1 /\ raBufRecs = <<>>)
    => (~result.err /\ result.records = accepted)

\* C2: every record that was written when a Flush or ForceFlush returned is
\* returned by a ReadAll on a handle opened later on the same directory.
C2_DurableAfterFlush ==
  (result.op = "ReadAll" /\ session > 1) => ContainsAll(durable, result.records)

\* C3: a ReadAll during which no flush completes returns the records flushed
\* before it and none of the buffered ones; after a flush returns the
\* buffer is empty.
C3_Buffering ==
  /\ (result.op = "ReadAll" /\ session = 1 /\ written = raWritten) => result.records = raWritten
  /\ result.op = "Flush" => buffer = <<>>

\* C4: every record accepted on a handle whose Close returned is returned by
\* ReadAll on a handle opened later on the same directory.
C4_CloseDrains ==
  (result.op = "ReadAll" /\ session > 1) => ContainsAll(drained, result.records)

\* C5: after Close and a new Open, ReadAll returns the records of the earlier
\* sessions first and the records flushed in the new session after them
\* (compared on op and key).
C5_ReopenOrder ==
  (result.op = "ReadAll" /\ session > 1 /\ prior = drained /\ written = raWritten)
    => OpKeys(result.records) = OpKeys(raWritten)

\* C6: when the frames appended and flushed exceed maxSize, there is more than
\* one segment file and ReadAll returns all records in write order.
C6_Rotation ==
  (result.op = "ReadAll" /\ session = 1 /\ raBufRecs = <<>> /\ TotalBytes(accepted) > maxSize)
    => (Cardinality(DOMAIN disk) > 1 /\ result.records = accepted)

\* C7: scanning a segment that holds valid frames followed by a torn frame
\* yields the records of the valid frames and leaves the file cut at the
\* offset where the torn frame's header began.
C7_TornWrite ==
  [][ReadAllFile =>
       LET f == disk[Head(raFiles)]
           off == ValidEnd(f, 0)
       IN TornAt(f, off) =>
            /\ raRecords' = raRecords \o FrameRecords(f, 0)
            /\ Len(disk'[Head(raFiles)]) = off]_vars

\* C8: scanning a segment whose first bad frame has a wrong magic, a short
\* payload, a checksum mismatch or an undecodable payload raises no error and
\* yields exactly the records of the frames before the bad frame.
C8_CorruptionNoError ==
  [][/\ ReadAllFile =>
          LET f == disk[Head(raFiles)]
          IN BadFrameAt(f, ValidEnd(f, 0)) =>
               (proc' = "up" /\ raRecords' = raRecords \o FrameRecords(f, 0))
     /\ ReadAllReturn => ~result'.err]_vars

\* C9: once ReadAll has scanned a segment, the segment consists of complete
\* valid frames only: its length is the end offset of its last valid frame.
C9_SelfHealing ==
  [][(ReadAllFile /\ proc' = "up") =>
       LET f == disk'[Head(raFiles)]
       IN ValidEnd(f, 0) = Len(f)]_vars

\* C10: once the scan of a segment has ended in a truncation, ReadAll takes
\* no record from any later segment.
C10_StopAtDamage ==
  [][(ReadAllFile /\ raTruncated) => raRecords' = raRecords]_vars

\* C11: a new Store that recovers from a log holding every Set and Delete
\* made before, all of them committed, ends with the map those operations
\* give when applied in order to an empty map.
C11_RecoveryEquivalence ==
  (result.op = "Recover" /\ session = 2 /\ accepted = <<>> /\ Len(durable) = nAppends)
    => data = Replay(durable, NoData)

\* C12: a ReadAll that starts once every writer has appended all its records
\* and a flush has emptied the buffer returns NWriters * PerWriter records,
\* and for each writer exactly its records, once each, in its append order.
C12_ConcurrentAppends ==
  (result.op = "ReadAll" /\ raBufRecs = <<>> /\ Len(raWritten) = NWriters * PerWriter)
    => /\ Len(result.records) = NWriters * PerWriter
       /\ \A w \in Writers :
            OfWriter(result.records, w) = [i \in 1..PerWriter |-> WriterRecord(w, i)]

\* C13: decodeRecord on the bytes encodeRecord gives for a record with op Set
\* or Delete succeeds and returns a record with the same op, key and value.
C13_RoundTrip ==
  (result.op \in {"decodeRecord", "panic"} /\ input.Op \in {OpSet, OpDelete})
    => result = Ret("decodeRecord", FALSE, <<input>>)

\* C14: an Append on a handle whose Close has begun returns an error and
\* leaves the buffer, the segment files and the segment counter as they were.
C14_AppendAfterClose ==
  [][(WalAppend /\ closed)
       => (result' = Ret("Append", TRUE, <<>>) /\ UNCHANGED <<buffer, disk, segmentID, file>>)]_vars

\* C14 witness: an Append was refused while Close was waiting for flushLoop
C14_Witness == closed /\ pc = "close_wait" /\ result = Ret("Append", TRUE, <<>>)

\* C15: a Flush, ForceFlush or ReadAll called once Close has begun returns an
\* error to its caller and changes nothing of the handle or the files.
C15_ClosedRejected ==
  [][(closed /\ (Flush \/ ForceFlush \/ ReadAllBegin))
       => (proc' = "up" /\ result'.err /\ UNCHANGED <<walVars, file, pc>>)]_vars

\* C16: a Close on a handle that is already closed returns nil and changes
\* nothing: the handle, the flush goroutine and the segment files stay as
\* they were, so what was flushed stays readable.
C16_IdempotentClose ==
  [][(CloseBegin /\ closed)
       => (result' = Ret("Close", FALSE, <<>>)
           /\ UNCHANGED <<walVars, loopVars, proc, closed, pc>>)]_vars

\* C16 witness: a second Close has returned nil on a handle that holds
\* flushed records and whose first Close has not returned yet
C16_Witness ==
  closed /\ pc = "close_wait" /\ result = Ret("Close", FALSE, <<>>) /\ written # <<>>

\* C17: a flush that meets a failing write, sync or rotation returns an
\* error to the caller of Flush or ForceFlush and does not bring the process
\* down, also when it is a flush of the background cycle; and once it has
\* failed, nothing more is written through the handle.
C17_FlushErrorPropagates ==
  [][/\ FlushFails => (proc' = "up" /\ result'.op = "Flush" /\ result'.err)
     /\ TickFails => proc' = "up"
     /\ result.op = "panic" => written' = written]_vars

\* C18: between the start and the end of a ReadAll no flush writes to a
\* segment and none rotates: the records written and the segment counter stay
\* as they were while the ReadAll is under way.
C18_ReadAllExclusive ==
  [][(pc = "readall" /\ proc' = "up") => (written' = written /\ segmentID' = segmentID)]_vars

\* C19: a step that changes the map of a live Store, other than the replay of
\* Recover, applies a record that Append had accepted before the step; and a
\* Set or Delete whose Append fails returns with the map unchanged.
C19_LogBeforeApply ==
  [][/\ (data' # data /\ proc' = "up" /\ session' = session /\ call.kind # "Recover")
          => \E i \in 1..Len(accepted) :
               accepted[i] = call.rec /\ data' = ApplyRecord(data, accepted[i])
     /\ ((StoreSet \/ StoreDelete) /\ closed)
          => (result'.err /\ data' = data /\ call' = NoCall)]_vars

\* C19 witness: a Set has been applied and a later call was refused by Append
C19_Witness ==
  closed /\ result.op = "Append" /\ result.err /\ KeyA \in DOMAIN data /\ Len(accepted) > 0

\* C20: on a handle that stays open, with no Flush and no Close, the n-th
\* record accepted by Append is eventually written to a segment.
C20_BackgroundFlush ==
  \A n \in 1..MaxAppends : (Len(accepted) >= n) ~> (Len(written) >= n)

\* C20 witness: every accepted record is on disk and no Flush has returned
C20_Witness ==
  Len(accepted) = MaxAppends /\ written = accepted /\ bufRecs = <<>> /\ durable = <<>>
\* C21: decodeRecord fails on a payload whose op byte is neither Set nor
\* Delete, and a frame with the right magic and checksum around such a
\* payload yields no record when a segment is scanned.
C21_UnknownOpRejected ==
  (input # NoRecord /\ input.Op \notin {OpSet, OpDelete})
    => /\ result.op = "decodeRecord" => result.err
       /\ result.op = "readAllFromFile" => result.records = <<>>

\* C24: on a payload of nine bytes or more decodeRecord succeeds only when
\* keyLen + valLen, added as unbounded integers, is the number of bytes after
\* the header; otherwise it returns an error and never slices outside the
\* payload.
C24_DecodeLengthCheck ==
  (input = NoRecord /\ result.op \in {"decodeRecord", "panic"})
    => LET keyLen == Uint32(Slice(payload, 1, 5))
           valLen == Uint32(Slice(payload, 5, 9))
           exact == keyLen[1] = 0 /\ valLen[1] = 0 /\ keyLen[2] + valLen[2] = Len(payload) - 9
       IN /\ result.op = "decodeRecord"
          /\ ~exact => result.err

\* C22: a flush that rotates writes the buffer into a segment with the next
\* index that was empty until then, and a write that leaves a segment larger
\* than maxSize went into an empty segment: a segment over the budget holds
\* the bytes of one flush only, also in a directory that was opened again.
C22_SegmentBudget ==
  [][/\ (file # 0 /\ file' # 0 /\ file' # file)
          => /\ file' = segmentID + 1
             /\ file' \notin DOMAIN disk \/ disk[file'] = <<>>
             /\ disk'[file'] = buffer
     /\ \A s \in DOMAIN disk' :
          (Len(disk'[s]) > maxSize /\ (s \notin DOMAIN disk \/ disk'[s] # disk[s]))
            => (s \notin DOMAIN disk \/ disk[s] = <<>>)]_vars

\* C23: the frames one flush drains all go to one segment: the flush extends
\* exactly one file by the whole buffer, the active one when the buffer fits
\* by the size before the write and the next one otherwise, and leaves every
\* other segment as it was.
C23_FlushOneSegment ==
  [][written' # written
       => /\ disk'[file'] = (IF file' \in DOMAIN disk THEN disk[file'] ELSE <<>>) \o buffer
          /\ \A t \in DOMAIN disk' \ {file'} : t \in DOMAIN disk /\ disk'[t] = disk[t]
          /\ \/ file' = file /\ Len(disk[file]) + Len(buffer) <= maxSize
             \/ file' = segmentID + 1 /\ Len(disk[file]) + Len(buffer) > maxSize
          /\ buffer' = <<>>]_vars

\* C23 witness: one flush has drained two frames that together are larger
\* than maxSize into the segment it rotated to
C23_Witness ==
  /\ file > 1
  /\ Len(written) = 2
  /\ Len(disk[file]) = TotalBytes(written)
  /\ Len(disk[file]) > maxSize

\* C25: an Append that is accepted extends the buffer by one frame, 12 bytes
\* of frame header and the encoded record, and leaves the segment files, the
\* file handle and the segment counter as they were.
C25_AppendInMemory ==
  [][(WalAppend /\ ~closed)
       => /\ result' = Ret("Append", FALSE, <<>>)
          /\ \E r \in Records :
               /\ buffer' = buffer \o Frame(encodeRecord(r))
               /\ Len(buffer') = Len(buffer) + 12 + 9 + Len(r.Key) + Len(r.Value)
          /\ UNCHANGED <<disk, file, segmentID>>]_vars

\* C25 witness: an Append was accepted after a flush had written an earlier
\* frame, and the segment holds the earlier frame only
C25_Witness ==
  /\ result = Ret("Append", FALSE, <<>>)
  /\ Len(accepted) = 2
  /\ Len(written) = 1
  /\ file # 0
  /\ Len(disk[file]) = TotalBytes(written)
  /\ Len(buffer) = TotalBytes(bufRecs)

\* C26: Store.Delete does not look at the map first: it logs a Delete record
\* with an empty value for the key and returns no error also when the key is
\* absent, and removes that key only, every other key keeping its value.
C26_DeleteUnconditional ==
  [][/\ KeysDelete
          => /\ ~result'.err
             /\ \E key \in TwoKeys :
                  /\ accepted' = Append(accepted, [Op |-> OpDelete, Key |-> key, Value |-> <<>>])
                  /\ call'.kind = "Delete" /\ call'.rec.Key = key
     /\ DeleteApply
          => /\ result' = Ret("Delete", FALSE, <<>>)
             /\ DOMAIN data' = DOMAIN data \ {call.rec.Key}
             /\ \A k \in DOMAIN data' : data'[k] = data[k]]_vars

\* C26 witness: Delete of a key that was never set has returned nil, its
\* record is logged and the other key still has its value
C26_Witness ==
  /\ result = Ret("Delete", FALSE, <<>>)
  /\ accepted = <<[Op |-> OpSet, Key |-> KeyB, Value |-> Val1],
                  [Op |-> OpDelete, Key |-> KeyA, Value |-> <<>>]>>
  /\ data = MapSet(NoData, KeyB, Val1)

\* C27: Recover on a populated Store merges: a key that no record of the log
\* names keeps what the map held, and a key the log names ends as the last
\* record for it says, present with that record's value after a Set and
\* absent after a Delete. The log is the records flushed when ReadAll began.
C27_RecoverMerges ==
  [][(RecoverReturn /\ written = raWritten)
       => \A k \in TwoKeys :
            LET named == {i \in 1..Len(raWritten) : raWritten[i].Key = k}
            IN IF named = {}
               THEN /\ (k \in DOMAIN data') = (k \in DOMAIN data)
                    /\ k \in DOMAIN data => data'[k] = data[k]
               ELSE LET last == raWritten[CHOOSE i \in named : \A j \in named : j <= i]
                    IN IF last.Op = OpSet
                       THEN k \in DOMAIN data' /\ data'[k] = last.Value
                       ELSE k \notin DOMAIN data']_vars

\* C28: no caller of Set or Delete holds w.mu and s.mu at the same time: the
\* lock of the log is released before the caller asks for the lock of the map.
C28_LockDiscipline ==
  \A c \in Callers :
    /\ ~(wmu = c /\ smu = c)
    /\ lockers[c].at \in {"lock", "apply"} => wmu # c
    /\ lockers[c].at = "append" => smu # c

\* C28 witness: one caller is inside Append under w.mu while another caller
\* updates the map under s.mu
C28_Witness ==
  \E c, d \in Callers :
    c # d /\ wmu = c /\ smu = d /\ lockers[c].at = "append" /\ lockers[d].at = "apply"

\* C29: under fair scheduling a Close that has marked the handle closed
\* returns in the end, with Appends, Flushes, further Closes and ticks in
\* between; stopCh is open when Close comes to close it, so it is closed
\* once, and once it is closed flushLoop closes stoppedCh.
C29_CloseTerminates ==
  /\ [](pc = "close_stop" => ~stopCh)
  /\ stopCh ~> stoppedCh
  /\ (pc = "close_stop") ~> (pc = "idle" /\ closed /\ stoppedCh /\ file = 0)

\* C29 witness: Close has returned on a handle that had accepted records
\* and whose flush goroutine has ended
C29_Witness ==
  /\ result = Ret("Close", FALSE, <<>>)
  /\ pc = "idle" /\ closed /\ file = 0
  /\ stopCh /\ stoppedCh /\ pcLoop = "done"
  /\ accepted # <<>> /\ drained = accepted

\* C30: a Close call that returns, also one made while another Close is
\* under way, returns after the final flush of flushLoop: at its return the
\* flush goroutine has ended, the buffer is empty and every record accepted
\* on the handle has been written.
C30_CloseAfterFinalFlush ==
  [][((CloseBegin /\ closed) \/ CloseWait)
       => (result' = Ret("Close", FALSE, <<>>) /\ pcLoop' = "done" /\ buffer' = <<>> /\ written' = accepted')]_vars

\* C31: after one session on a fresh directory that ended in a crash, a
\* ReadAll of the handle opened next, before anything is appended to it,
\* returns a prefix of the records the first session's Appends accepted.
C31_CrashPrefix ==
  (result.op = "ReadAll" /\ session = 2 /\ accepted = <<>>) => IsPrefix(result.records, logged)

\* C32: once a ReadAll has met a damaged tail in the active segment, the
\* records appended and flushed on the handle afterwards are returned by the
\* next ReadAll, after the records that were whole before the damage.
C32_AppendAfterRecovery ==
  (/\ result.op = "ReadAll" /\ healed /\ accepted # <<>>
   /\ raBufRecs = <<>> /\ raWritten = prior \o accepted)
    => result.records = prior \o accepted

\* C33: when the Set and Delete calls of concurrent callers, also on one
\* key, have all returned and their records are flushed, Recover on a new
\* Store over the log gives the map the live Store holds.
C33_LiveEqualsReplayed ==
  (/\ \A c \in Callers : lockers[c].at = "idle"
   /\ accepted # <<>> /\ bufRecs = <<>> /\ written = accepted)
    => data = RecoveredMap(disk)

\* C34: in the first session on a fresh directory, the bytes of the segments
\* in segment order followed by the bytes of the buffer are the frames of the
\* accepted records in acceptance order, and the split falls between two
\* frames: the buffer holds complete frames only.
C34_Conservation ==
  (proc = "up" /\ session = 1)
    => \E n \in 0..Len(accepted) :
         /\ BytesOf(disk, segmentFiles(disk)) = FramesOf(SubSeq(accepted, 1, n))
         /\ buffer = FramesOf(SubSeq(accepted, n + 1, Len(accepted)))

\* C34 witness: a frame lies in a segment the handle rotated to and a
\* later frame is still in the buffer
C34_Witness ==
  /\ proc = "up" /\ session = 1
  /\ file > 1 /\ Len(disk[file]) > 0
  /\ Len(buffer) > 0
  /\ Len(accepted) = 2

\* C35: a Recover that follows a Recover on a log that has not changed since
\* the first one began leaves the map as the first one left it.
C35_RecoverIdempotent ==
  [][(RecoverReturn /\ recovered.n > 0 /\ recovered.disk = disk /\ recovered.seen = disk)
       => data' = recovered.data]_vars

\* C35 witness: Recover has returned twice in a row on a log that holds a
\* record, on a Store whose map also holds a key that is not in the log yet
C35_Witness ==
  /\ result = Ret("Recover", FALSE, <<>>)
  /\ recovered.n = 2 /\ recovered.disk = disk /\ recovered.data = data
  /\ written # <<>> /\ bufRecs # <<>>
  /\ DOMAIN data = TwoKeys

====
